---------------------------- MODULE Spec2Model ----------------------------
(***************************************************************************)
(* Model of the listener reconciler of pkg/alb/ls/listener.go.             *)
(*                                                                         *)
(* A Listener holds an optional `current` snapshot (what the control plane *)
(* has), an optional `desired` snapshot (what the configuration asks for), *)
(* the `deleted` flag and its rules collection.  Reconcile classifies the  *)
(* pair and calls create, modify or delete, each of which issues one       *)
(* request to the control-plane client and reports to the event sink and   *)
(* the logger.                                                             *)
(*                                                                         *)
(* Every method is an operator from an execution record x (the listener's  *)
(* fields plus what the call has so far sent, emitted, logged and          *)
(* returned) to the execution record after the method.  The actions apply  *)
(* the operators to the state variables and keep the finished call in      *)
(* `last`.                                                                 *)
(***************************************************************************)
EXTENDS Integers, Sequences, FiniteSets

\* ------------------------------------------------------------------ bounds

\* Longest certificate list of a snapshot fetched from the control plane.
MaxCerts == 1

\* ------------------------------------------------------------------ values

\* A nil pointer to a string (*string == nil) and a nil error.
Nil == "nil"

\* A nil *elbv2.Listener (l.ls.current == nil, l.ls.desired == nil).
NilListener == [present |-> FALSE]

Ports == {80, 443}

Schemes == {"HTTP", "HTTPS"}

Protocols == {"HTTP", "HTTPS"}

CertificateArns == {"cert-1", "cert-2"}

SslPolicies == {"pol-1"}

TargetGroupArns == {"tg-a", "tg-b"}

\* Logical names of the services a rule forwards to.
SvcNames == {"svc-a"}

LoadBalancerArns == {"lb-1"}

\* The ARN of a listener fetched before the first call, and the ARNs the
\* control plane assigns to created listeners.
FetchedArn == "arn-0"

AssignedArns == {"arn-1"}

\* The errors the control-plane client returns.
Errors == {"err-1", "err-2"}

\* Sequences over S of length at most n.
RECURSIVE SeqsUpTo(_, _)
SeqsUpTo(S, n) ==
    IF n = 0 THEN {<<>>}
    ELSE LET shorter == SeqsUpTo(S, n - 1)
         IN  shorter \cup {Append(s, e) : s \in shorter, e \in S}

\* ------------------------------------------------------------ constructors

\* The options of NewDesiredListener: a port with its scheme, an optional
\* certificate and an optional SSL policy.
NewDesiredListenerOptions ==
    [Port : [Port : Ports, Scheme : Schemes],
     CertificateArn : {Nil} \cup {"cert-1"},
     SslPolicy : {Nil} \cup SslPolicies]

\* NewDesiredListener taking the protocol from the scheme alone, whether or
\* not a certificate was given.
NewDesiredListener_ProtocolFromScheme(o) ==
    LET https == o.CertificateArn # Nil /\ o.Port.Scheme = "HTTPS"
        ssl   == o.SslPolicy # Nil /\ o.Port.Scheme = "HTTPS"
    IN  [present         |-> TRUE,
         ListenerArn     |-> Nil,
         LoadBalancerArn |-> Nil,
         Port            |-> o.Port.Port,
         Protocol        |-> o.Port.Scheme,
         Certificates    |-> IF https THEN <<o.CertificateArn>> ELSE <<>>,
         SslPolicy       |-> IF ssl THEN o.SslPolicy ELSE Nil,
         DefaultActions  |-> <<[Type |-> "forward", TargetGroupArn |-> Nil]>>]

\* The desired snapshot NewDesiredListener builds: HTTP with one forward
\* action, upgraded to HTTPS with the certificate when a certificate is given
\* and the scheme is HTTPS; the SSL policy is attached when one is given and
\* the scheme is HTTPS.
NewDesiredListener(o) ==
    LET https == o.CertificateArn # Nil /\ o.Port.Scheme = "HTTPS"
        ssl   == o.SslPolicy # Nil /\ o.Port.Scheme = "HTTPS"
    IN  [present         |-> TRUE,
         ListenerArn     |-> Nil,
         LoadBalancerArn |-> Nil,
         Port            |-> o.Port.Port,
         Protocol        |-> IF https THEN "HTTPS" ELSE "HTTP",
         Certificates    |-> IF https THEN <<o.CertificateArn>> ELSE <<>>,
         SslPolicy       |-> IF ssl THEN o.SslPolicy ELSE Nil,
         DefaultActions  |-> <<[Type |-> "forward", TargetGroupArn |-> Nil]>>]

\* The snapshots a fetch from the control plane hands to NewCurrentListener.
FetchedListeners ==
    [present         : {TRUE},
     ListenerArn     : {FetchedArn},
     LoadBalancerArn : LoadBalancerArns,
     Port            : Ports,
     Protocol        : Protocols,
     Certificates    : SeqsUpTo(CertificateArns, MaxCerts),
     SslPolicy       : {Nil} \cup SslPolicies,
     DefaultActions  : {<<[Type |-> "forward", TargetGroupArn |-> t]>> :
                            t \in {Nil} \cup TargetGroupArns}]

\* NewCurrentListener wraps the fetched snapshot as the current side.
NewCurrentListener(o) == o.Listener

\* ------------------------------------------------------ rules collaborator

\* The rules collection: the logical target of its default rule (Nil when it
\* has no default rule) and whether its rules still hold desired and current
\* state.
RulesStates ==
    [default : {Nil} \cup SvcNames, desired : BOOLEAN, current : BOOLEAN]

\* rs.Rules.DefaultRule: the default rule, or Nil.
DefaultRule(rules) == rules.default

\* rs.Rule.TargetGroupArn: the ARN the lookup table gives the rule's target,
\* or Nil.
TargetGroupArn(rule, targetGroups) == targetGroups[rule]

\* rs.Rules.StripDesiredState and rs.Rules.StripCurrentState.
RulesStripDesiredState(rules) == [rules EXCEPT !.desired = FALSE]

RulesStripCurrentState(rules) == [rules EXCEPT !.current = FALSE]

\* The ReconcileOptions: the load balancer's ARN and the target-group table.
ReconcileOptions ==
    [LoadBalancerArn : LoadBalancerArns,
     TargetGroups : [SvcNames -> {Nil} \cup TargetGroupArns]]

\* --------------------------------------------------- control-plane client

\* What the control plane does with the one request of a call: it fails with
\* err, or (err = Nil) succeeds, assigning arn to a created listener.
Outcomes ==
    [err : {Nil}, arn : AssignedArns] \cup [err : Errors, arn : {Nil}]

\* CreateListener's response: the requested listener under its assigned ARN.
CreateListenerOutput(inp, cp) ==
    [present         |-> TRUE,
     ListenerArn     |-> cp.arn,
     LoadBalancerArn |-> inp.LoadBalancerArn,
     Port            |-> inp.Port,
     Protocol        |-> inp.Protocol,
     Certificates    |-> inp.Certificates,
     SslPolicy       |-> inp.SslPolicy,
     DefaultActions  |-> inp.DefaultActions]

\* ModifyListener's response: the addressed listener with the requested
\* fields; `stored` is the listener as the control plane holds it.
ModifyListenerOutput(inp, stored) ==
    [present         |-> TRUE,
     ListenerArn     |-> inp.ListenerArn,
     LoadBalancerArn |-> stored.LoadBalancerArn,
     Port            |-> inp.Port,
     Protocol        |-> inp.Protocol,
     Certificates    |-> inp.Certificates,
     SslPolicy       |-> inp.SslPolicy,
     DefaultActions  |-> inp.DefaultActions]

\* util.DeepEqual: structural equality with pointers dereferenced.
DeepEqual(a, b) == a = b

\* ------------------------------------------------------ execution records

\* rOpts.Eventf(type, reason, ...): one event for the sink.
Event(type, reason, port) == [Type |-> type, Reason |-> reason, Port |-> port]

Eventf(x, type, reason, port) ==
    [x EXCEPT !.events = Append(@, Event(type, reason, port))]

\* l.logger.Infof / Errorf.
Logf(x, msg) == [x EXCEPT !.logs = Append(@, msg)]

\* One request sent to the control-plane client, with the error it came back
\* with (Nil when it succeeded).
Send(x, op, inp, cp) ==
    [x EXCEPT !.reqs = Append(@, [op |-> op, inp |-> inp, err |-> cp.err])]

\* The execution record at the start of a call on listener (c, d, del, r).
Enter(c, d, del, r) ==
    [current |-> c, desired |-> d, deleted |-> del, rules |-> r,
     reqs |-> <<>>, events |-> <<>>, logs |-> <<>>, err |-> Nil]


\* A nil *ReconcileOptions.
NilOptions == [present |-> FALSE]

\* ---------------------------------------------------------------- methods

\* The desired snapshot with its default action's target group set from the
\* default rule, when the rules collection has one (create and
\* needsModification both do this before they use the snapshot).
SetDefaultTargetGroup(d, rules, rOpts) ==
    LET defaultRule == DefaultRule(rules)
    IN  IF defaultRule # Nil
        THEN [d EXCEPT !.DefaultActions[1].TargetGroupArn =
                           TargetGroupArn(defaultRule, rOpts.TargetGroups)]
        ELSE d

\* The create request without the SSL policy.
CreateListenerInput_NoSslPolicy(d) ==
    [Certificates    |-> d.Certificates,
     LoadBalancerArn |-> d.LoadBalancerArn,
     Protocol        |-> d.Protocol,
     Port            |-> d.Port,
     SslPolicy       |-> Nil,
     DefaultActions  |->
         <<[Type           |-> d.DefaultActions[1].Type,
            TargetGroupArn |-> d.DefaultActions[1].TargetGroupArn]>>]

\* The elbv2.CreateListenerInput create builds from the desired snapshot.
CreateListenerInput(d) ==
    [Certificates    |-> d.Certificates,
     LoadBalancerArn |-> d.LoadBalancerArn,
     Protocol        |-> d.Protocol,
     Port            |-> d.Port,
     SslPolicy       |-> d.SslPolicy,
     DefaultActions  |->
         <<[Type           |-> d.DefaultActions[1].Type,
            TargetGroupArn |-> d.DefaultActions[1].TargetGroupArn]>>]

\* create forgetting to attach the load balancer to the desired snapshot.
create_NoLoadBalancer(x, rOpts, cp) ==
    LET d2  == SetDefaultTargetGroup(x.desired, x.rules, rOpts)
        inp == CreateListenerInput(d2)
        x1  == Send([x EXCEPT !.desired = d2], "CreateListener", inp, cp)
    IN  IF cp.err # Nil
        THEN [Logf(Eventf(x1, "Warning", "ERROR", d2.Port),
                   "Failed Listener creation.") EXCEPT !.err = cp.err]
        ELSE [x1 EXCEPT !.current = CreateListenerOutput(inp, cp),
                        !.err = Nil]

\* create sending its request a second time when the first one failed.
create_Retry(x, rOpts, cp) ==
    LET d1  == [x.desired EXCEPT !.LoadBalancerArn = rOpts.LoadBalancerArn]
        d2  == SetDefaultTargetGroup(d1, x.rules, rOpts)
        inp == CreateListenerInput(d2)
        x1  == Send([x EXCEPT !.desired = d2], "CreateListener", inp, cp)
        x2  == IF cp.err # Nil THEN Send(x1, "CreateListener", inp, cp) ELSE x1
    IN  IF cp.err # Nil
        THEN [Logf(Eventf(x2, "Warning", "ERROR", d2.Port),
                   "Failed Listener creation.") EXCEPT !.err = cp.err]
        ELSE [x2 EXCEPT !.current = CreateListenerOutput(inp, cp),
                        !.err = Nil]

\* create: attach the load balancer, resolve the target group, send the
\* create request; on success current becomes the returned listener.
create(x, rOpts, cp) ==
    LET d1  == [x.desired EXCEPT !.LoadBalancerArn = rOpts.LoadBalancerArn]
        d2  == SetDefaultTargetGroup(d1, x.rules, rOpts)
        inp == CreateListenerInput(d2)
        x1  == Send([x EXCEPT !.desired = d2], "CreateListener", inp, cp)
    IN  IF cp.err # Nil
        THEN [Logf(Eventf(x1, "Warning", "ERROR", d2.Port),
                   "Failed Listener creation.") EXCEPT !.err = cp.err]
        ELSE [x1 EXCEPT !.current = CreateListenerOutput(inp, cp),
                        !.err = Nil]

\* The modify request addressed by the desired snapshot's ARN.
ModifyListenerInput_DesiredArn(c, d) ==
    [ListenerArn    |-> d.ListenerArn,
     Certificates   |-> d.Certificates,
     Port           |-> d.Port,
     Protocol       |-> d.Protocol,
     SslPolicy      |-> d.SslPolicy,
     DefaultActions |-> d.DefaultActions]

\* The modify request without the certificates.
ModifyListenerInput_NoCertificates(c, d) ==
    [ListenerArn    |-> c.ListenerArn,
     Certificates   |-> <<>>,
     Port           |-> d.Port,
     Protocol       |-> d.Protocol,
     SslPolicy      |-> d.SslPolicy,
     DefaultActions |-> d.DefaultActions]

\* The elbv2.ModifyListenerInput modify builds.
ModifyListenerInput(c, d) ==
    [ListenerArn    |-> c.ListenerArn,
     Certificates   |-> d.Certificates,
     Port           |-> d.Port,
     Protocol       |-> d.Protocol,
     SslPolicy      |-> d.SslPolicy,
     DefaultActions |-> d.DefaultActions]

\* modify going on to its own request after the create it delegated to
\* succeeded.
modify_FallsThrough(x, rOpts, cp) ==
    LET x0  == IF x.current = NilListener THEN create(x, rOpts, cp) ELSE x
    IN  IF x0.current = NilListener
        THEN x0
        ELSE LET inp == ModifyListenerInput(x0.current, x0.desired)
                 x1  == Send(x0, "ModifyListener", inp, cp)
             IN  IF cp.err # Nil
                 THEN [Logf(Eventf(x1, "Warning", "ERROR", x0.desired.Port),
                            "Failed Listener modification.")
                           EXCEPT !.err = cp.err]
                 ELSE [x1 EXCEPT
                          !.current = ModifyListenerOutput(inp, x0.current),
                          !.err = Nil]

\* modify: a create when there is no current snapshot; otherwise send the
\* modify request, and on success current becomes the returned listener.
modify(x, rOpts, cp) ==
    IF x.current = NilListener
    THEN create(x, rOpts, cp)
    ELSE LET inp == ModifyListenerInput(x.current, x.desired)
             x1  == Send(x, "ModifyListener", inp, cp)
         IN  IF cp.err # Nil
             THEN [Logf(Eventf(x1, "Warning", "ERROR", x.desired.Port),
                        "Failed Listener modification.")
                       EXCEPT !.err = cp.err]
             ELSE [x1 EXCEPT !.current = ModifyListenerOutput(inp, x.current),
                             !.err = Nil]

\* delete addressing its request by the load balancer's ARN.
delete_ByLoadBalancerArn(x, rOpts, cp) ==
    LET x1 == Send(x, "RemoveListener", x.current.LoadBalancerArn, cp)
    IN  IF cp.err # Nil
        THEN [Logf(Eventf(x1, "Warning", "ERROR", x.current.Port),
                   "Failed Listener deletion.") EXCEPT !.err = cp.err]
        ELSE [x1 EXCEPT !.deleted = TRUE, !.err = Nil]

\* delete setting the flag before it looks at the request's error.
delete_SetsDeletedFirst(x, rOpts, cp) ==
    LET x1 == Send([x EXCEPT !.deleted = TRUE], "RemoveListener",
                   x.current.ListenerArn, cp)
    IN  IF cp.err # Nil
        THEN [Logf(Eventf(x1, "Warning", "ERROR", x.current.Port),
                   "Failed Listener deletion.") EXCEPT !.err = cp.err]
        ELSE [x1 EXCEPT !.err = Nil]

\* delete: send the remove request for current's ARN; on success set deleted.
delete(x, rOpts, cp) ==
    LET x1 == Send(x, "RemoveListener", x.current.ListenerArn, cp)
    IN  IF cp.err # Nil
        THEN [Logf(Eventf(x1, "Warning", "ERROR", x.current.Port),
                   "Failed Listener deletion.") EXCEPT !.err = cp.err]
        ELSE [x1 EXCEPT !.deleted = TRUE, !.err = Nil]

\* needsModification comparing without resolving the target group first.
needsModificationState_NoResolve(x, rOpts) == x

\* The listener after needsModification: the desired snapshot's target group
\* is set from the default rule before the comparison.
needsModificationState(x, rOpts) ==
    IF rOpts # NilOptions /\ x.desired # NilListener
    THEN [x EXCEPT !.desired = SetDefaultTargetGroup(@, x.rules, rOpts)]
    ELSE x

\* needsModification without its last comparison, that of the SSL policy.
needsModification_IgnoresSslPolicy(x, rOpts) ==
    LET lsc == x.current
        lsd == needsModificationState(x, rOpts).desired
    IN  IF lsc = NilListener /\ lsd = NilListener THEN FALSE
        ELSE IF lsc = NilListener THEN TRUE
        ELSE IF ~DeepEqual(lsc.Port, lsd.Port) THEN TRUE
        ELSE IF ~DeepEqual(lsc.Protocol, lsd.Protocol) THEN TRUE
        ELSE IF ~DeepEqual(lsc.Certificates, lsd.Certificates) THEN TRUE
        ELSE IF ~DeepEqual(lsc.DefaultActions, lsd.DefaultActions) THEN TRUE
        ELSE FALSE

\* needsModification's result: the first differing field decides.
needsModification(x, rOpts) ==
    LET lsc == x.current
        lsd == needsModificationState(x, rOpts).desired
    IN  IF lsc = NilListener /\ lsd = NilListener THEN FALSE
        ELSE IF lsc = NilListener THEN TRUE
        ELSE IF ~DeepEqual(lsc.Port, lsd.Port) THEN TRUE
        ELSE IF ~DeepEqual(lsc.Protocol, lsd.Protocol) THEN TRUE
        ELSE IF ~DeepEqual(lsc.Certificates, lsd.Certificates) THEN TRUE
        ELSE IF ~DeepEqual(lsc.DefaultActions, lsd.DefaultActions) THEN TRUE
        ELSE IF ~DeepEqual(lsc.SslPolicy, lsd.SslPolicy) THEN TRUE
        ELSE FALSE

\* Reconcile's delete case going on to the DELETE event after an error.
reconcileDelete_IgnoresError(x, rOpts, cp) ==
    LET x1 == delete(Logf(x, "Start Listener deletion."), rOpts, cp)
    IN  Logf(Eventf(x1, "Normal", "DELETE", x1.current.Port),
             "Completed Listener deletion.")

\* Reconcile's first case once current is known to be present: delete, then
\* the DELETE event unless delete returned an error.
reconcileDelete(x, rOpts, cp) ==
    LET x1 == delete(Logf(x, "Start Listener deletion."), rOpts, cp)
    IN  IF x1.err # Nil
        THEN x1
        ELSE Logf(Eventf(x1, "Normal", "DELETE", x1.current.Port),
                  "Completed Listener deletion.")

\* Reconcile's second case: create, then the CREATE event unless create
\* returned an error.
reconcileCreate(x, rOpts, cp) ==
    LET x1 == create(Logf(x, "Start Listener creation."), rOpts, cp)
    IN  IF x1.err # Nil
        THEN x1
        ELSE Logf(Eventf(x1, "Normal", "CREATE", x1.current.Port),
                  "Completed Listener creation.")

\* Reconcile's third case, entered after needsModification returned true:
\* modify, then the MODIFY event unless modify returned an error.
reconcileModify(x, rOpts, cp) ==
    LET x1 == modify(Logf(x, "Start Listener modification."), rOpts, cp)
    IN  IF x1.err # Nil
        THEN x1
        ELSE Logf(Eventf(x1, "Normal", "MODIFY", x1.current.Port),
                  "Completed Listener modification.")

\* Reconcile with its second and third cases in the other order: a listener
\* with no current snapshot reaches needsModification and modify.
Reconcile_NeedsModificationFirst(x, rOpts, cp) ==
    IF x.desired = NilListener
    THEN IF x.current = NilListener
         THEN x
         ELSE reconcileDelete(x, rOpts, cp)
    ELSE IF needsModification(x, rOpts)
    THEN reconcileModify(needsModificationState(x, rOpts), rOpts, cp)
    ELSE IF x.current = NilListener /\ x.desired # NilListener
    THEN reconcileCreate(x, rOpts, cp)
    ELSE needsModificationState(x, rOpts)

\* Reconcile with the third case's condition negated: it modifies when
\* needsModification returned false.
Reconcile_ModifiesWhenEqual(x, rOpts, cp) ==
    IF x.desired = NilListener
    THEN IF x.current = NilListener
         THEN x
         ELSE reconcileDelete(x, rOpts, cp)
    ELSE IF x.current = NilListener /\ x.desired # NilListener
    THEN reconcileCreate(x, rOpts, cp)
    ELSE IF ~needsModification(x, rOpts)
    THEN reconcileModify(needsModificationState(x, rOpts), rOpts, cp)
    ELSE needsModificationState(x, rOpts)

\* Reconcile leaving a listener alone once its deleted flag is set.
Reconcile_SkipsDeleted(x, rOpts, cp) ==
    IF x.desired = NilListener
    THEN IF x.current = NilListener \/ x.deleted
         THEN x
         ELSE reconcileDelete(x, rOpts, cp)
    ELSE IF x.current = NilListener /\ x.desired # NilListener
    THEN reconcileCreate(x, rOpts, cp)
    ELSE IF needsModification(x, rOpts)
    THEN reconcileModify(needsModificationState(x, rOpts), rOpts, cp)
    ELSE needsModificationState(x, rOpts)

\* Reconcile: the switch over the pair, first matching case only.  The third
\* case's condition is the call of needsModification, which leaves its change
\* of the desired snapshot behind whatever it returns.
Reconcile(x, rOpts, cp) ==
    IF x.desired = NilListener
    THEN IF x.current = NilListener
         THEN x
         ELSE reconcileDelete(x, rOpts, cp)
    ELSE IF x.current = NilListener /\ x.desired # NilListener
    THEN reconcileCreate(x, rOpts, cp)
    ELSE IF needsModification(x, rOpts)
    THEN reconcileModify(needsModificationState(x, rOpts), rOpts, cp)
    ELSE needsModificationState(x, rOpts)

\* StripDesiredState without the strip of the rules.
StripDesiredState_KeepsRules(x) == [x EXCEPT !.desired = NilListener]

\* stripCurrentState clearing the deleted flag with the current snapshot.
stripCurrentState_ResetsDeleted(x) ==
    [x EXCEPT !.current = NilListener,
              !.deleted = FALSE,
              !.rules = RulesStripCurrentState(@)]

\* StripDesiredState and stripCurrentState.
StripDesiredState(x) ==
    [x EXCEPT !.desired = NilListener,
              !.rules = RulesStripDesiredState(@)]

stripCurrentState(x) ==
    [x EXCEPT !.current = NilListener,
              !.rules = RulesStripCurrentState(@)]

\* ------------------------------------------------------------------ state

VARIABLES
    current,   \* l.ls.current
    desired,   \* l.ls.desired
    deleted,   \* l.deleted
    rules,     \* l.rules
    last       \* the last call: its name, options, the listener before it,
               \* and what it sent, emitted, logged and returned

vars == <<current, desired, deleted, rules, last>>

\* The listener's fields as one record.
Listener == [current |-> current, desired |-> desired,
             deleted |-> deleted, rules |-> rules]

\* A listener is built from NewDesiredListener, from NewCurrentListener, or
\* by the caller's merge of the two; deleted is false and nothing was called.
Init ==
    /\ current \in {NilListener} \cup
                   {NewCurrentListener([Listener |-> f]) : f \in FetchedListeners}
    /\ desired \in {NilListener} \cup
                   {NewDesiredListener(o) : o \in NewDesiredListenerOptions}
    /\ deleted = FALSE
    /\ rules \in [default : {Nil} \cup SvcNames, desired : {TRUE}, current : {TRUE}]
    /\ last = [op |-> "New", rOpts |-> NilOptions, pre |-> NilListener,
               reqs |-> <<>>, events |-> <<>>, logs |-> <<>>, err |-> Nil]

\* The call `op` with options rOpts ended in execution record x.
Return(op, rOpts, x) ==
    /\ current' = x.current
    /\ desired' = x.desired
    /\ deleted' = x.deleted
    /\ rules' = x.rules
    /\ last' = [op |-> op, rOpts |-> rOpts, pre |-> Listener,
                reqs |-> x.reqs, events |-> x.events, logs |-> x.logs,
                err |-> x.err]

\* The execution record of a call that starts in the present state.
Here == Enter(current, desired, deleted, rules)

\* The caller reconciles the listener.
ReconcileCall ==
    \E rOpts \in ReconcileOptions, cp \in Outcomes :
        Return("Reconcile", rOpts, Reconcile(Here, rOpts, cp))

\* The caller strips the desired state.
StripDesiredStateCall ==
    Return("StripDesiredState", NilOptions, StripDesiredState(Here))

\* The caller strips the current state.
StripCurrentStateCall ==
    Return("stripCurrentState", NilOptions, stripCurrentState(Here))

\* The rules collection gets another default rule, or loses it.
RulesChange ==
    /\ \E r \in {Nil} \cup SvcNames :
           /\ r # rules.default
           /\ rules' = [rules EXCEPT !.default = r]
    /\ last' = [op |-> "RulesChange", rOpts |-> NilOptions, pre |-> Listener,
                reqs |-> <<>>, events |-> <<>>, logs |-> <<>>, err |-> Nil]
    /\ UNCHANGED <<current, desired, deleted>>

Next ==
    \/ ReconcileCall
    \/ StripDesiredStateCall
    \/ StripCurrentStateCall
    \/ RulesChange

Spec == Init /\ [][Next]_vars

\* A direct call of modify (package-internal); it needs a desired snapshot.
ModifyCall ==
    /\ desired # NilListener
    /\ \E rOpts \in ReconcileOptions, cp \in Outcomes :
           Return("modify", rOpts, modify(Here, rOpts, cp))

\* A direct call of create; it needs a desired snapshot.
CreateCall ==
    /\ desired # NilListener
    /\ \E rOpts \in ReconcileOptions, cp \in Outcomes :
           Return("create", rOpts, create(Here, rOpts, cp))

NextDirect ==
    \/ ModifyCall
    \/ CreateCall
    \/ StripDesiredStateCall
    \/ StripCurrentStateCall
    \/ RulesChange

\* The behaviours of a caller inside the package that calls modify and create
\* directly instead of Reconcile.
SpecDirect == Init /\ [][NextDirect]_vars

\* -------------------------------------------------------------- properties

\* The execution record the last call started from.
Before ==
    Enter(last.pre.current, last.pre.desired, last.pre.deleted, last.pre.rules)

\* The action a log line starts, and the action a request belongs to.
LogClass(msg) ==
    CASE msg = "Start Listener deletion." -> "delete"
      [] msg = "Start Listener creation." -> "create"
      [] msg = "Start Listener modification." -> "modify"
      [] OTHER -> "none"

ReqClass(op) ==
    CASE op = "RemoveListener" -> "delete"
      [] op = "CreateListener" -> "create"
      [] op = "ModifyListener" -> "modify"

\* The actions the last call started or sent a request for.
Selected ==
    ({LogClass(last.logs[i]) : i \in DOMAIN last.logs} \ {"none"})
        \cup {ReqClass(last.reqs[i].op) : i \in DOMAIN last.reqs}

\* The action the priority table gives the pair the last call started from.
Expected ==
    LET c == last.pre.current # NilListener
        d == last.pre.desired # NilListener
    IN  IF ~d /\ ~c THEN "no-op"
        ELSE IF ~d THEN "delete"
        ELSE IF ~c THEN "create"
        ELSE IF needsModification(Before, last.rOpts) THEN "modify"
        ELSE "no-op"

\* C1: every Reconcile call selects exactly the action the priority table
\* gives its (current, desired) pair: nothing when both are absent, delete
\* when only desired is absent, create when only current is absent, modify
\* when both are present and needsModification is true, nothing otherwise.
C1_Classification ==
    last.op = "Reconcile" =>
        /\ Selected = IF Expected = "no-op" THEN {} ELSE {Expected}
        /\ Expected # "no-op" => Len(last.reqs) = 1

\* A Reconcile call on a pair with both sides present that selected modify.
C1_Witness ==
    /\ last.op = "Reconcile"
    /\ last.pre.current # NilListener
    /\ last.pre.desired # NilListener
    /\ Selected = {"modify"}

\* C2: a Reconcile call sends at most one request to the control plane,
\* and a request that failed is not sent again.
C2_AtMostOneRequest ==
    last.op = "Reconcile" => Len(last.reqs) <= 1

\* A Reconcile call whose one request failed.
C2_Witness ==
    /\ last.op = "Reconcile"
    /\ Len(last.reqs) = 1
    /\ last.reqs[1].err # Nil
    /\ last.reqs[1].op = "CreateListener"

\* C3: when the request of a Reconcile call fails, the call returns the
\* request's error, current is what it was before the call, and deleted is
\* not set by the call.
C3_FailureKeepsCurrent ==
    (last.op = "Reconcile" /\ last.reqs # <<>> /\ last.reqs[1].err # Nil) =>
        /\ last.err = last.reqs[1].err
        /\ current = last.pre.current
        /\ deleted = last.pre.deleted

\* A Reconcile call whose modify request failed.
C3_Witness ==
    /\ last.op = "Reconcile"
    /\ last.reqs # <<>>
    /\ last.reqs[1].op = "ModifyListener"
    /\ last.reqs[1].err # Nil
    /\ current = last.pre.current

\* The target-group ARN the default rule resolves to under the last call's
\* options, or `otherwise` when the rules collection had no default rule.
ResolvedOr(otherwise) ==
    IF last.pre.rules.default # Nil
    THEN last.rOpts.TargetGroups[last.pre.rules.default]
    ELSE otherwise

\* The last call was a Reconcile that sent a create request which failed.
CreateFailed ==
    /\ last.op = "Reconcile"
    /\ last.reqs # <<>>
    /\ last.reqs[1].op = "CreateListener"
    /\ last.reqs[1].err # Nil

\* C4 as stated: a failed create leaves current absent, deleted false and the
\* whole desired snapshot as it was, and returns the error.
C4_Original ==
    CreateFailed =>
        /\ current = NilListener
        /\ deleted = FALSE
        /\ desired = last.pre.desired
        /\ last.err = last.reqs[1].err

\* C4 (amended): a failed create leaves current absent and deleted false and
\* returns the error; the desired snapshot is as before the call except for
\* its load-balancer identifier, which is now the options', and its default
\* action's target-group ARN, which is now the one the default rule resolves
\* to (and is as before when there is no default rule).
C4_FailedCreateFrame ==
    CreateFailed =>
        /\ current = NilListener
        /\ deleted = FALSE
        /\ deleted = last.pre.deleted
        /\ rules = last.pre.rules
        /\ last.err = last.reqs[1].err
        /\ desired =
             [last.pre.desired EXCEPT
                 !.LoadBalancerArn = last.rOpts.LoadBalancerArn,
                 !.DefaultActions[1].TargetGroupArn = ResolvedOr(@)]

\* A failed create that changed the desired snapshot's target-group ARN.
C4_Witness ==
    /\ CreateFailed
    /\ desired.DefaultActions # last.pre.desired.DefaultActions
    /\ desired.LoadBalancerArn # last.pre.desired.LoadBalancerArn

\* The last call was a Reconcile on a pair with both sides present for which
\* needsModification is false.
NoOpCall ==
    /\ last.op = "Reconcile"
    /\ last.pre.current # NilListener
    /\ last.pre.desired # NilListener
    /\ ~needsModification(Before, last.rOpts)

\* C5 as stated: such a Reconcile call sends nothing, returns nil and leaves
\* the listener's state unchanged.
C5_Original ==
    NoOpCall =>
        /\ last.reqs = <<>>
        /\ last.err = Nil
        /\ Listener = last.pre

\* C5 (amended): such a Reconcile call sends nothing, returns nil and leaves
\* current, deleted and the rules unchanged; of the desired snapshot it
\* changes only the default action's target-group ARN, to the one the default
\* rule resolves to; and every further Reconcile call with the same options
\* and rules sends nothing, returns nil and leaves the whole state unchanged.
C5_NoOpIdempotent ==
    NoOpCall =>
        /\ last.reqs = <<>>
        /\ last.err = Nil
        /\ current = last.pre.current
        /\ deleted = last.pre.deleted
        /\ rules = last.pre.rules
        /\ desired =
             [last.pre.desired EXCEPT
                 !.DefaultActions[1].TargetGroupArn = ResolvedOr(@)]
        /\ \A cp \in Outcomes :
               LET y == Reconcile(Here, last.rOpts, cp)
               IN  /\ y.reqs = <<>>
                   /\ y.err = Nil
                   /\ y.current = current
                   /\ y.desired = desired
                   /\ y.deleted = deleted
                   /\ y.rules = rules

\* A no-op Reconcile call that wrote the resolved target-group ARN into the
\* desired snapshot.
C5_Witness ==
    /\ NoOpCall
    /\ last.reqs = <<>>
    /\ desired # last.pre.desired

\* C6: a successful create on a listener with no current snapshot sends one
\* create request carrying the desired fields and the options' load balancer,
\* and leaves a current snapshot with a non-empty ARN whose port, protocol,
\* certificates, SSL policy and default action are those of desired.
C6_CreatePopulates ==
    (/\ last.op = "Reconcile"
     /\ last.pre.current = NilListener
     /\ last.pre.desired # NilListener
     /\ last.err = Nil) =>
        /\ Len(last.reqs) = 1
        /\ last.reqs[1].op = "CreateListener"
        /\ last.reqs[1].inp =
             [Certificates    |-> desired.Certificates,
              LoadBalancerArn |-> last.rOpts.LoadBalancerArn,
              Protocol        |-> desired.Protocol,
              Port            |-> desired.Port,
              SslPolicy       |-> desired.SslPolicy,
              DefaultActions  |-> desired.DefaultActions]
        /\ desired.Port = last.pre.desired.Port
        /\ desired.Protocol = last.pre.desired.Protocol
        /\ desired.Certificates = last.pre.desired.Certificates
        /\ desired.SslPolicy = last.pre.desired.SslPolicy
        /\ current # NilListener
        /\ current.ListenerArn # Nil
        /\ current.ListenerArn # ""
        /\ current.Port = desired.Port
        /\ current.Protocol = desired.Protocol
        /\ current.Certificates = desired.Certificates
        /\ current.SslPolicy = desired.SslPolicy
        /\ current.DefaultActions = desired.DefaultActions

\* A successful create of an HTTPS listener on port 443 with certificate
\* cert-1 and an SSL policy.
C6_Witness ==
    /\ last.op = "Reconcile"
    /\ last.pre.current = NilListener
    /\ last.err = Nil
    /\ last.reqs # <<>>
    /\ current # NilListener
    /\ current.Port = 443
    /\ current.Protocol = "HTTPS"
    /\ current.Certificates = <<"cert-1">>
    /\ current.SslPolicy # Nil
    /\ current.ListenerArn \in AssignedArns

\* C7: with desired absent, Reconcile sends nothing and returns nil when
\* current is absent too; when current is present it sends exactly one remove
\* request addressed by current's ARN, and when that succeeds deleted is true
\* and current is still present with all its fields.
C7_DeleteOnlyOnCurrent ==
    (last.op = "Reconcile" /\ last.pre.desired = NilListener) =>
        /\ last.pre.current = NilListener =>
               (last.reqs = <<>> /\ last.err = Nil)
        /\ last.pre.current # NilListener =>
               /\ Len(last.reqs) = 1
               /\ last.reqs[1].op = "RemoveListener"
               /\ last.reqs[1].inp = last.pre.current.ListenerArn
               /\ last.reqs[1].err = Nil =>
                      /\ deleted = TRUE
                      /\ last.err = Nil
                      /\ current = last.pre.current

\* A successful delete.
C7_Witness ==
    /\ last.op = "Reconcile"
    /\ last.pre.desired = NilListener
    /\ last.pre.current # NilListener
    /\ last.reqs # <<>>
    /\ last.reqs[1].err = Nil
    /\ deleted = TRUE
    /\ current # NilListener

\* C8: a Reconcile call that performs an action emits exactly one event: a
\* Normal one when its request succeeded, returning nil, or a Warning one
\* when its request failed, returning the error; a no-op call emits no event
\* and returns nil.
C8_OneEvent ==
    last.op = "Reconcile" =>
        IF Selected = {}
        THEN last.events = <<>> /\ last.err = Nil /\ last.reqs = <<>>
        ELSE /\ Len(last.events) = 1
             /\ Len(last.reqs) = 1
             /\ \/ /\ last.reqs[1].err = Nil
                   /\ last.events[1].Type = "Normal"
                   /\ last.err = Nil
                \/ /\ last.reqs[1].err # Nil
                   /\ last.events[1].Type = "Warning"
                   /\ last.err = last.reqs[1].err

\* A Reconcile call whose delete request failed and that emitted a Warning.
C8_Witness ==
    /\ last.op = "Reconcile"
    /\ Len(last.events) = 1
    /\ last.events[1].Type = "Warning"
    /\ last.reqs[1].op = "RemoveListener"
    /\ last.err # Nil

\* The fields in which snapshots c and d differ.
DifferingFields(c, d) ==
    {f \in {"Port", "Protocol", "Certificates", "DefaultActions", "SslPolicy"} :
        c[f] # d[f]}

\* The desired snapshot the last call started from, with its default action's
\* target-group ARN re-resolved under the last call's options.
ResolvedDesired ==
    [last.pre.desired EXCEPT !.DefaultActions[1].TargetGroupArn = ResolvedOr(@)]

\* C9: with both sides present, needsModification is false exactly when port,
\* protocol, certificate list, default-action list and SSL policy of current
\* and of the re-resolved desired snapshot are all equal, so a difference in
\* any one of them alone makes it true; Reconcile modifies exactly then.
C9_DiffSensitivity ==
    (/\ last.op = "Reconcile"
     /\ last.pre.current # NilListener
     /\ last.pre.desired # NilListener) =>
        LET differing == DifferingFields(last.pre.current, ResolvedDesired)
        IN  /\ needsModification(Before, last.rOpts) = (differing # {})
            /\ ("modify" \in Selected) = (differing # {})

\* A Reconcile call on a pair that differed in the SSL policy alone, and
\* that sent a modify request.
C9_Witness ==
    /\ last.op = "Reconcile"
    /\ last.pre.current # NilListener
    /\ last.pre.desired # NilListener
    /\ DifferingFields(last.pre.current, ResolvedDesired) = {"SslPolicy"}
    /\ last.reqs # <<>>
    /\ last.reqs[1].op = "ModifyListener"

\* C10: modify called with current absent and desired present does what
\* create does in the same state with the same options and the same answer of
\* the control plane: one create request and no modify request, and the same
\* current, desired, deleted, events and returned error.
C10_ModifySelfHeals ==
    (last.op = "modify" /\ last.pre.current = NilListener) =>
        /\ Len(last.reqs) = 1
        /\ last.reqs[1].op = "CreateListener"
        /\ \E cp \in Outcomes :
               LET y == create(Before, last.rOpts, cp)
               IN  /\ cp.err = last.reqs[1].err
                   /\ y.reqs = last.reqs
                   /\ y.current = current
                   /\ y.desired = desired
                   /\ y.deleted = deleted
                   /\ y.rules = rules
                   /\ y.events = last.events
                   /\ y.err = last.err

\* A direct modify call on a listener with no current snapshot that created
\* the listener.
C10_Witness ==
    /\ last.op = "modify"
    /\ last.pre.current = NilListener
    /\ last.err = Nil
    /\ current # NilListener
    /\ current.ListenerArn \in AssignedArns
    /\ last.reqs[1].op = "CreateListener"

\* C11: the snapshot NewDesiredListener builds from options o is HTTPS, with
\* the certificate and with the SSL policy of the options, exactly when a
\* certificate is given and the scheme is HTTPS; in every other case it is
\* HTTP and carries neither a certificate nor an SSL policy.
C11_UpgradeOnlyWithCertificate ==
    (last.op = "New" /\ desired # NilListener) =>
        \A o \in NewDesiredListenerOptions :
            desired = NewDesiredListener(o) =>
                IF o.CertificateArn # Nil /\ o.Port.Scheme = "HTTPS"
                THEN /\ desired.Protocol = "HTTPS"
                     /\ desired.Certificates = <<o.CertificateArn>>
                     /\ desired.SslPolicy = o.SslPolicy
                ELSE /\ desired.Protocol = "HTTP"
                     /\ desired.Certificates = <<>>
                     /\ desired.SslPolicy = Nil

\* The requests of the last call that carry a listener's fields.
FieldRequests ==
    {i \in DOMAIN last.reqs :
        last.reqs[i].op \in {"CreateListener", "ModifyListener"}}

\* An HTTPS snapshot or request has a certificate, an HTTP one has none.
CertificateRule(r) ==
    /\ r.Protocol = "HTTPS" => Len(r.Certificates) >= 1
    /\ r.Protocol = "HTTP" => r.Certificates = <<>>

\* C12: in every state reached from NewDesiredListener through Reconcile and
\* the strips, a present desired snapshot has a certificate when its protocol
\* is HTTPS and none when it is HTTP, and so has every create or modify
\* request sent.
C12_CertificateRule ==
    /\ desired # NilListener => CertificateRule(desired)
    /\ \A i \in FieldRequests : CertificateRule(last.reqs[i].inp)

\* A Reconcile call that sent a modify request for an HTTPS listener with its
\* certificate.
C12_Witness ==
    /\ last.op = "Reconcile"
    /\ last.reqs # <<>>
    /\ last.reqs[1].op = "ModifyListener"
    /\ last.reqs[1].inp.Protocol = "HTTPS"
    /\ last.reqs[1].inp.Certificates = <<"cert-1">>
    /\ desired.Protocol = "HTTPS"

\* The last call was a Reconcile on a pair with both sides present that
\* agreed in port, protocol, certificates and SSL policy, while the default
\* rule resolved to another target group than the one of current's default
\* action.
TargetGroupAloneDiffers ==
    /\ last.op = "Reconcile"
    /\ last.pre.current # NilListener
    /\ last.pre.desired # NilListener
    /\ last.pre.rules.default # Nil
    /\ last.pre.current.Port = last.pre.desired.Port
    /\ last.pre.current.Protocol = last.pre.desired.Protocol
    /\ last.pre.current.Certificates = last.pre.desired.Certificates
    /\ last.pre.current.SslPolicy = last.pre.desired.SslPolicy
    /\ last.pre.current.DefaultActions[1].TargetGroupArn # ResolvedOr(Nil)

\* C13: when only the target group the default rule resolves to differs from
\* current's, Reconcile sends exactly one modify request, and its default
\* action carries the newly resolved target-group ARN.
C13_TargetGroupChangeModifies ==
    TargetGroupAloneDiffers =>
        /\ Len(last.reqs) = 1
        /\ last.reqs[1].op = "ModifyListener"
        /\ Len(last.reqs[1].inp.DefaultActions) = 1
        /\ last.reqs[1].inp.DefaultActions[1].TargetGroupArn = ResolvedOr(Nil)

\* Such a call, where the desired snapshot already held current's target
\* group from an earlier resolution and the table now gives tg-b.
C13_Witness ==
    /\ TargetGroupAloneDiffers
    /\ last.pre.desired.DefaultActions = last.pre.current.DefaultActions
    /\ last.reqs # <<>>
    /\ last.reqs[1].inp.DefaultActions[1].TargetGroupArn = "tg-b"
    /\ last.err = Nil

\* C14: in every Reconcile call, the target-group ARN compared (the one in
\* the desired snapshot after a call on a pair with both sides present) and
\* the one carried by a create or modify request is the one the rules
\* collection yields at that call: the default rule's, looked up in the call's
\* table, and none when there is no default rule; never one resolved by an
\* earlier call.
C14_NeverStale ==
    last.op = "Reconcile" =>
        /\ \A i \in FieldRequests :
               last.reqs[i].inp.DefaultActions[1].TargetGroupArn = ResolvedOr(Nil)
        /\ (last.pre.current # NilListener /\ last.pre.desired # NilListener) =>
               desired.DefaultActions[1].TargetGroupArn = ResolvedOr(Nil)

\* The requests the next Reconcile call would send from the present state,
\* over all options and answers of the control plane.
NextRequests ==
    {Reconcile(Here, rOpts, cp).reqs :
        rOpts \in ReconcileOptions, cp \in Outcomes}

\* The operations of a sequence of requests.
Ops(reqs) == [i \in DOMAIN reqs |-> reqs[i].op]

\* C15: StripDesiredState makes desired absent and stripCurrentState makes
\* current absent; each leaves the other snapshot and deleted unchanged and
\* strips the same side of the rules.  The next Reconcile then sends exactly
\* one remove request after StripDesiredState with current present, exactly
\* one create request after stripCurrentState with desired present, and
\* nothing once both sides are absent.
C15_Strips ==
    /\ last.op = "StripDesiredState" =>
           /\ desired = NilListener
           /\ current = last.pre.current
           /\ deleted = last.pre.deleted
           /\ rules = [last.pre.rules EXCEPT !.desired = FALSE]
           /\ current # NilListener =>
                  \A reqs \in NextRequests : Ops(reqs) = <<"RemoveListener">>
    /\ last.op = "stripCurrentState" =>
           /\ current = NilListener
           /\ desired = last.pre.desired
           /\ deleted = last.pre.deleted
           /\ rules = [last.pre.rules EXCEPT !.current = FALSE]
           /\ desired # NilListener =>
                  \A reqs \in NextRequests : Ops(reqs) = <<"CreateListener">>
    /\ (/\ last.op \in {"StripDesiredState", "stripCurrentState"}
        /\ current = NilListener
        /\ desired = NilListener) =>
           NextRequests = {<<>>}

\* Both strips were called on a listener that had both sides: the second one
\* was stripCurrentState, and neither side is left in the listener nor in the
\* rules.
C15_Witness ==
    /\ last.op = "stripCurrentState"
    /\ last.pre.current # NilListener
    /\ last.pre.desired = NilListener
    /\ ~last.pre.rules.desired
    /\ current = NilListener
    /\ ~rules.current

\* C16: every modify and every remove request is addressed by the ARN
\* current had before the call; a desired snapshot carries no ARN; and, the
\* control plane answering a modify with the ARN it was addressed by, a
\* Reconcile call that finds and leaves current present leaves its ARN the
\* same.
C16_ArnStable ==
    /\ desired # NilListener => desired.ListenerArn = Nil
    /\ last.op = "Reconcile" =>
           /\ \A i \in DOMAIN last.reqs :
                  /\ last.reqs[i].op = "ModifyListener" =>
                         last.reqs[i].inp.ListenerArn =
                             last.pre.current.ListenerArn
                  /\ last.reqs[i].op = "RemoveListener" =>
                         last.reqs[i].inp = last.pre.current.ListenerArn
           /\ (last.pre.current # NilListener /\ current # NilListener) =>
                  /\ current.ListenerArn = last.pre.current.ListenerArn
                  /\ current.ListenerArn # Nil

\* A successful modify of a listener that an earlier call created: it still
\* has the ARN the create assigned.
C16_Witness ==
    /\ last.op = "Reconcile"
    /\ last.reqs # <<>>
    /\ last.reqs[1].op = "ModifyListener"
    /\ last.reqs[1].err = Nil
    /\ last.pre.current.ListenerArn \in AssignedArns
    /\ current # last.pre.current
    /\ current.ListenerArn = last.pre.current.ListenerArn

\* The last call was a Reconcile whose create or modify request succeeded.
Converged ==
    /\ last.op = "Reconcile"
    /\ last.reqs # <<>>
    /\ last.reqs[1].op \in {"CreateListener", "ModifyListener"}
    /\ last.reqs[1].err = Nil

\* C17: after a Reconcile call whose create or modify succeeded (the control
\* plane answering with the requested fields), needsModification is false
\* under the same options and rules, and the next Reconcile call with them
\* sends no request and emits no event.
C17_Convergence ==
    Converged =>
        /\ current # NilListener
        /\ desired # NilListener
        /\ ~needsModification(Here, last.rOpts)
        /\ \A cp \in Outcomes :
               LET y == Reconcile(Here, last.rOpts, cp)
               IN  /\ y.reqs = <<>>
                   /\ y.events = <<>>
                   /\ y.err = Nil

\* A successful modify that changed current's certificates.
C17_Witness ==
    /\ Converged
    /\ last.reqs[1].op = "ModifyListener"
    /\ current.Certificates # last.pre.current.Certificates
    /\ current.Certificates = desired.Certificates

\* C18: deleted is false on a new listener, turns true only in a Reconcile
\* call whose remove request succeeded, and no call (Reconcile,
\* StripDesiredState, stripCurrentState) turns it false again.
C18_DeletedFlag ==
    /\ last.op = "New" => deleted = FALSE
    /\ (last.op # "New" /\ deleted /\ ~last.pre.deleted) =>
           /\ last.op = "Reconcile"
           /\ Ops(last.reqs) = <<"RemoveListener">>
           /\ last.reqs[1].err = Nil
    /\ (last.op # "New" /\ last.pre.deleted) => deleted

\* stripCurrentState was called on a deleted listener: current is absent and
\* deleted is still true.
C18_Witness ==
    /\ last.op = "stripCurrentState"
    /\ last.pre.deleted
    /\ last.pre.current # NilListener
    /\ current = NilListener
    /\ deleted

\* C19: Reconcile does not look at deleted: on a deleted listener whose
\* current is still present and whose desired is absent, a Reconcile call
\* sends one more remove request addressed by the same ARN, and so does the
\* call after it.
C19_DeleteRepeats ==
    /\ (/\ last.op = "Reconcile"
        /\ last.pre.deleted
        /\ last.pre.current # NilListener
        /\ last.pre.desired = NilListener) =>
           /\ Ops(last.reqs) = <<"RemoveListener">>
           /\ last.reqs[1].inp = last.pre.current.ListenerArn
           /\ current = last.pre.current
    /\ (deleted /\ current # NilListener /\ desired = NilListener) =>
           \A reqs \in NextRequests :
               /\ Ops(reqs) = <<"RemoveListener">>
               /\ reqs[1].inp = current.ListenerArn

\* A Reconcile call on an already deleted listener that sent the remove
\* request again and succeeded again.
C19_Witness ==
    /\ last.op = "Reconcile"
    /\ last.pre.deleted
    /\ last.pre.current # NilListener
    /\ last.reqs # <<>>
    /\ last.reqs[1].op = "RemoveListener"
    /\ last.reqs[1].err = Nil
    /\ deleted

=============================================================================
